---- MODULE Spec2Model ----
(***************************************************************************)
(* The conversation pipeline of the GTM Agent backend.                     *)
(*                                                                         *)
(* Two ChatProcessor classes exist: services/chatgraph_service.py          *)
(* (summarizing trimmer, workflow decide_search -> web_search -> llm) and  *)
(* chat_graph.py (hard truncation, workflow llm only).  Each is kept in a  *)
(* ChatManager (chat_manager.py, chat_graph.py) that maps conversation ids *)
(* to processors.  The completion capability (llm.invoke), the search      *)
(* capability (web_search) and the tokenizer are the environment: every    *)
(* call either raises or returns one value of a small set.                 *)
(*                                                                         *)
(* Message timestamps are not modelled (no modelled step reads them).      *)
(***************************************************************************)
EXTENDS Integers, Sequences, FiniteSets, TLC

\* ------------------------------------------------------------------ bounds
MaxCalls == 2    \* process_message calls explored in one behaviour
MaxProcs == 2    \* ChatProcessor objects constructed in one behaviour
MaxRounds == 3   \* nested summarize_messages calls explored
MaxLen == 3      \* length of the message lists handed to the trimmers alone
MaxFrags == 3    \* fragments joined into a message handed to the decision alone
MaxResults == 3  \* largest max_results handed to WebSearchService.search
MaxProvider == 4 \* most results a search provider answers with

\* --------------------------------------------------------------- constants
MAX_TOKENS == 4000
TokenReserve == 500
MessageOverhead == 4

None == "<None>"
Ids == {"c1", "c2"}
Impls == {"chatgraph_service", "chat_graph"}

\* ----------------------------------------------------------------- texts
LongText == "<long text>"
SummaryPrefix == "Summary of earlier conversation: "
UserTexts == {"Hello", LongText}
LLMReplies == {"Hi", ""}
Summaries == {"S"}
SearchOutputs == {"Result 1: ..."}

D_search == "{\"needs_search\": true, \"search_query\": \"q\"}"
D_nosearch == "{\"needs_search\": false, \"search_query\": null}"
D_noquery == "{\"needs_search\": true}"
D_emptyquery == "{\"needs_search\": true, \"search_query\": \"\"}"
D_garbage == "A search is needed."
DecisionReplies == {D_search, D_nosearch, D_noquery, D_emptyquery, D_garbage}

\* tiktoken cl100k_base token counts of the texts of the model
count_tokens(text) ==
    CASE text = "" -> 0
      [] text = "Hi" -> 1
      [] text = "Hello" -> 1
      [] text = "Hello there" -> 2
      [] text = LongText -> 3600
      [] text = SummaryPrefix \o "S" -> 6
      [] OTHER -> Len(text)

Msg(role, content) == [role |-> role, content |-> content]

\* sum(count_tokens(m["content"]) + 4 for m in messages)
RECURSIVE total_tokens(_)
total_tokens(messages) ==
    IF messages = <<>> THEN 0
    ELSE count_tokens(Head(messages).content) + MessageOverhead
         + total_tokens(Tail(messages))

\* [m for m in messages if not isinstance(m, type)]
not_class_objects_drop_newest(messages) ==
    SubSeq(messages, 1, Len(messages) - 1)

not_class_objects(messages) ==
    SelectSeq(messages, LAMBDA m : m.role \in {"user", "assistant", "system"})

\* total_tokens <= max_tokens
fits_strict(total, max_tokens) == total < max_tokens
fits(total, max_tokens) == total <= max_tokens

\* chat_utils.py binds datetime only: the name timezone is not defined there
timezone_defined_yes == TRUE
timezone_defined == FALSE

\* one summarize_messages round past the budget test, given the summary text
summary_message(summary) == Msg("system", SummaryPrefix \o summary)

split_idx(messages) == Len(messages) \div 2
to_summarize(messages) == SubSeq(messages, 1, split_idx(messages))
to_keep(messages) == SubSeq(messages, split_idx(messages) + 1, Len(messages))
new_messages(messages, summary) ==
    not_class_objects(<<summary_message(summary)>> \o to_keep(messages))

\* ---------------------------------------------------------------- state
VARIABLES
    impl,            \* which module's ChatManager / ChatProcessor runs
    conversations,   \* ChatManager.conversations: id -> processor (0: no key)
    chat_history,    \* ChatProcessor.chat_history, per processor object
    created,         \* ChatProcessor objects constructed so far
    returned,        \* what the last get_processor call returned
    last_op,         \* the last operation called on the store, and its id
    pc,              \* position of the running process_message call
    req,             \* its arguments and its processor
    state,           \* the workflow state dict (messages, needs_search, ...)
    max_tokens,      \* the budget handed to the trimmer
    result,          \* how the last process_message call ended
    trace,           \* workflow nodes entered by the running/last call
    rounds,          \* summarize_messages rounds of the running/last call
    llm_calls,       \* llm.invoke calls of the running/last call
    web_search_calls,\* web_search calls of the running/last call
    search_failed,   \* web_search raised in the running/last call
    input0,          \* the list handed to the trimmer
    llm_in,          \* the messages of the last llm.invoke of the llm node
    hist0,           \* the processor's history when the call started
    calls,           \* per processor: <<message, response>> of each call returned
    failed,          \* per processor: some call on it raised
    n_calls,         \* process_message calls started
    decision_reply   \* response.content in the decision step, until the
                     \* next node runs

storeVars == <<impl, conversations, chat_history, created, returned, last_op>>
callVars == <<pc, req, state, max_tokens, result>>
ghostVars == <<trace, rounds, llm_calls, web_search_calls, search_failed,
               input0, llm_in, hist0, calls, failed, n_calls,
               decision_reply>>
vars == <<storeVars, callVars, ghostVars>>

Procs == 1..MaxProcs

NoReq == [conversation_id |-> None, message |-> None, processor |-> 0]
NoState == [messages |-> <<>>, needs_search |-> FALSE,
            search_query |-> None, search_results |-> None]
NoResult == [status |-> "none", response |-> None, error |-> None]

Init ==
    /\ impl \in Impls
    /\ conversations = [id \in Ids |-> 0]
    /\ chat_history = [p \in Procs |-> <<>>]
    /\ created = 0
    /\ returned = 0
    /\ last_op = [name |-> "none", id |-> None]
    /\ pc = "idle"
    /\ req = NoReq
    /\ state = NoState
    /\ max_tokens = MAX_TOKENS - TokenReserve
    /\ result = NoResult
    /\ trace = <<>>
    /\ rounds = 0
    /\ llm_calls = 0
    /\ web_search_calls = 0
    /\ search_failed = FALSE
    /\ input0 = <<>>
    /\ llm_in = <<>>
    /\ hist0 = <<>>
    /\ calls = [p \in Procs |-> <<>>]
    /\ failed = [p \in Procs |-> FALSE]
    /\ n_calls = 0
    /\ decision_reply = None

\* ------------------------------------------------------ conversation store
\* ChatManager.get_processor: the store, the histories and the object count
\* after the call, and the processor it returns
\* The handlers of main.py are coroutines that call the chat module without
\* awaiting anything, and the chat module's functions hold no suspension
\* point: a call on the store starts only when no other call is running.
store_free_always(running) == TRUE
store_free(running) == ~running

get_processor_shared(convs, hist, n, id) ==
    IF convs["c1"] = 0
    THEN [conversations |-> [convs EXCEPT !["c1"] = n + 1],
          chat_history |-> [hist EXCEPT ![n + 1] = <<>>],
          created |-> n + 1,
          processor |-> n + 1]
    ELSE [conversations |-> convs,
          chat_history |-> hist,
          created |-> n,
          processor |-> convs["c1"]]

get_processor_unregistered(convs, hist, n, id) ==
    IF convs[id] = 0
    THEN [conversations |-> convs,
          chat_history |-> [hist EXCEPT ![n + 1] = <<>>],
          created |-> n + 1,
          processor |-> n + 1]
    ELSE [conversations |-> convs,
          chat_history |-> hist,
          created |-> n,
          processor |-> convs[id]]

get_processor_always_new(convs, hist, n, id) ==
    [conversations |-> [convs EXCEPT ![id] = n + 1],
     chat_history |-> hist,
     created |-> n + 1,
     processor |-> n + 1]

get_processor(convs, hist, n, id) ==
    IF convs[id] = 0
    THEN [conversations |-> [convs EXCEPT ![id] = n + 1],
          chat_history |-> [hist EXCEPT ![n + 1] = <<>>],
          created |-> n + 1,
          processor |-> n + 1]
    ELSE [conversations |-> convs,
          chat_history |-> hist,
          created |-> n,
          processor |-> convs[id]]

GetProcessor(id) ==
    /\ store_free(pc # "idle")
    /\ LET r == get_processor(conversations, chat_history, created, id) IN
        /\ r.created <= MaxProcs
        /\ conversations' = r.conversations
        /\ chat_history' = r.chat_history
        /\ created' = r.created
        /\ returned' = r.processor
    /\ last_op' = [name |-> "get_processor", id |-> id]
    /\ UNCHANGED <<impl, callVars, ghostVars>>

\* ChatManager.clear_conversation: the store and the histories after the
\* call, and whether it raised
clear_conversation_no_pop(convs, hist, id) ==
    IF convs[id] # 0
    THEN [conversations |-> convs,
          chat_history |-> [hist EXCEPT ![convs[id]] = <<>>],
          raised |-> FALSE]
    ELSE [conversations |-> convs, chat_history |-> hist, raised |-> FALSE]

clear_conversation_strict(convs, hist, id) ==
    IF convs[id] # 0
    THEN [conversations |-> [convs EXCEPT ![id] = 0],
          chat_history |-> [hist EXCEPT ![convs[id]] = <<>>],
          raised |-> FALSE]
    ELSE [conversations |-> convs, chat_history |-> hist, raised |-> TRUE]

clear_conversation(convs, hist, id) ==
    IF convs[id] # 0
    THEN [conversations |-> [convs EXCEPT ![id] = 0],
          chat_history |-> [hist EXCEPT ![convs[id]] = <<>>],
          raised |-> FALSE]
    ELSE [conversations |-> convs, chat_history |-> hist, raised |-> FALSE]

ClearConversation(id) ==
    /\ store_free(pc # "idle")
    /\ LET r == clear_conversation(conversations, chat_history, id) IN
        /\ conversations' = r.conversations
        /\ chat_history' = r.chat_history
        /\ last_op' = [name |-> IF r.raised THEN "clear_conversation raised"
                                ELSE "clear_conversation",
                       id |-> id]
    /\ UNCHANGED <<impl, created, returned, callVars, ghostVars>>

\* -------------------------------------------------------------- trimmers
\* Hard truncation (chat_graph.py imports truncate_messages from
\* utils.chat_utils, which does not define it): newest to oldest, accept a
\* message while the running cost stays within the budget; the newest one
\* is always accepted.  keep_from is the index of the oldest accepted one.
cost(m) == count_tokens(m.content) + MessageOverhead

RECURSIVE keep_from(_, _, _, _)
keep_from(messages, i, used, budget) ==
    IF i = 1 THEN 1
    ELSE IF used + cost(messages[i - 1]) > budget THEN i
    ELSE keep_from(messages, i - 1, used + cost(messages[i - 1]), budget)

truncate_messages_oldest(messages, budget) ==
    IF messages = <<>> THEN <<>>
    ELSE SubSeq(messages, 1,
                Len(messages) + 1
                - keep_from(messages, Len(messages),
                            cost(messages[Len(messages)]), budget))

truncate_messages(messages, budget) ==
    IF messages = <<>> THEN <<>>
    ELSE SubSeq(messages,
                keep_from(messages, Len(messages),
                          cost(messages[Len(messages)]), budget),
                Len(messages))

\* a call made on no processor is a call of the trimmer alone
after_trim(next_pc) == IF req.processor = 0 THEN "idle" ELSE next_pc

Returned(response) == [status |-> "ok", response |-> response, error |-> None]
Raised_swallowed(error) == Returned("")
Raised(error) == [status |-> "error", response |-> None, error |-> error]

\* an exception leaves process_message: nothing is appended, nothing undone
Raise(error) ==
    /\ pc' = "idle"
    /\ result' = Raised(error)
    /\ failed' = IF req.processor = 0 THEN failed
                 ELSE [failed EXCEPT ![req.processor] = TRUE]

\* ------------------------------------------------------- process_message
\* initial_state of ChatProcessor.process_message
initial_state_stale(processing_history) ==
    [messages |-> processing_history, needs_search |-> FALSE,
     search_query |-> None, search_results |-> "Result 1: ..."]

initial_state(processing_history) ==
    [messages |-> processing_history, needs_search |-> FALSE,
     search_query |-> None, search_results |-> None]

\* module-level process_message: get_processor, then the head of
\* ChatProcessor.process_message up to the call of the trimmer
ProcessMessage(conversation_id, message) ==
    /\ pc = "idle"
    /\ n_calls < MaxCalls
    /\ LET r == get_processor(conversations, chat_history, created,
                              conversation_id)
           p == r.processor
           history == Append(r.chat_history[p], Msg("user", message))
       IN
        /\ r.created <= MaxProcs
        /\ conversations' = r.conversations
        /\ created' = r.created
        /\ returned' = p
        /\ last_op' = [name |-> "process_message", id |-> conversation_id]
        /\ chat_history' = [r.chat_history EXCEPT ![p] = history]
        /\ req' = [conversation_id |-> conversation_id, message |-> message,
                   processor |-> p]
        /\ hist0' = r.chat_history[p]
        /\ input0' = history
        /\ state' = initial_state(history)
    /\ max_tokens' = MAX_TOKENS - TokenReserve
    /\ pc' = IF impl = "chatgraph_service" THEN "summarize" ELSE "truncate"
    /\ result' = NoResult
    /\ trace' = <<>>
    /\ rounds' = 0
    /\ llm_calls' = 0
    /\ web_search_calls' = 0
    /\ search_failed' = FALSE
    /\ llm_in' = <<>>
    /\ n_calls' = n_calls + 1
    /\ decision_reply' = None
    /\ UNCHANGED <<impl, calls, failed>>

\* one call of summarize_messages (chat_utils.py), the recursive call at
\* its end being the next step
SummarizeRound ==
    /\ pc = "summarize"
    /\ IF fits(total_tokens(state.messages), max_tokens)
       THEN /\ state' = [state EXCEPT
                           !.messages = not_class_objects(state.messages)]
            /\ pc' = after_trim("decide_search")
            /\ result' = IF req.processor = 0 THEN Returned(None) ELSE result
            /\ UNCHANGED <<rounds, llm_calls, failed>>
       ELSE /\ rounds' = rounds + 1
            /\ llm_calls' = llm_calls + 1
            /\ \/ Raise("llm") /\ UNCHANGED state
               \/ \E summary \in Summaries :
                    IF ~timezone_defined
                    THEN Raise("NameError") /\ UNCHANGED state
                    ELSE IF rounds + 1 >= MaxRounds
                    THEN Raise("RecursionError") /\ UNCHANGED state
                    ELSE /\ state' = [state EXCEPT !.messages =
                                        new_messages(state.messages, summary)]
                         /\ UNCHANGED <<pc, result, failed>>
    /\ UNCHANGED <<storeVars, req, max_tokens, trace, web_search_calls,
                   search_failed, input0, llm_in, hist0, calls, n_calls,
                   decision_reply>>

\* the truncate_messages call of chat_graph.ChatProcessor.process_message
TruncateStep ==
    /\ pc = "truncate"
    /\ state' = [state EXCEPT
                   !.messages = truncate_messages(state.messages, max_tokens)]
    /\ pc' = after_trim("llm")
    /\ result' = IF req.processor = 0 THEN Returned(None) ELSE result
    /\ UNCHANGED <<storeVars, req, max_tokens, ghostVars>>

\* ------------------------------------------- workflow (chatgraph_service)
\* json.loads(response.content) followed by the two decision.get calls;
\* ok is FALSE where either raises
json_loads(text) ==
    CASE text = D_search ->
           [ok |-> TRUE, needs_search |-> TRUE, search_query |-> "q"]
      [] text = D_nosearch ->
           [ok |-> TRUE, needs_search |-> FALSE, search_query |-> None]
      [] text = D_noquery ->
           [ok |-> TRUE, needs_search |-> TRUE, search_query |-> None]
      [] text = D_emptyquery ->
           [ok |-> TRUE, needs_search |-> TRUE, search_query |-> ""]
      [] OTHER ->
           [ok |-> FALSE, needs_search |-> FALSE, search_query |-> None]

\* the conditional edge out of decide_search
next_node_always_search(st) == "web_search"
next_node_inverted(st) == IF st.needs_search THEN "llm" ELSE "web_search"
next_node(st) == IF st.needs_search THEN "web_search" ELSE "llm"

\* the edge out of web_search
after_web_search == "llm"

\* ChatProcessor._decide_search_node
DecideSearch ==
    /\ pc = "decide_search"
    /\ trace' = Append(trace, "decide_search")
    /\ llm_calls' = llm_calls + 1
    /\ \/ Raise("llm") /\ UNCHANGED <<state, decision_reply>>
       \/ \E content \in DecisionReplies :
            LET decision == json_loads(content)
                st == IF decision.ok
                      THEN [state EXCEPT
                              !.needs_search = decision.needs_search,
                              !.search_query = decision.search_query]
                      ELSE [state EXCEPT !.needs_search = FALSE,
                                         !.search_query = None]
            IN  /\ state' = st
                /\ decision_reply' = content
                /\ pc' = next_node(st)
                /\ UNCHANGED <<result, failed>>
    /\ UNCHANGED <<storeVars, req, max_tokens, rounds, web_search_calls,
                   search_failed, input0, llm_in, hist0, calls, n_calls>>

\* "not query"
falsy_none_only(query) == query = None
falsy(query) == query = None \/ query = ""

\* the except branch of _web_search_node
search_except_reraise(st) == [raised |-> TRUE, state |-> st]
search_except(st) ==
    [raised |-> FALSE,
     state |-> [st EXCEPT !.search_results = None, !.needs_search = FALSE]]

\* ChatProcessor._web_search_node
WebSearch ==
    /\ pc = "web_search"
    /\ trace' = Append(trace, "web_search")
    /\ IF falsy(state.search_query)
       THEN /\ state' = [state EXCEPT !.search_results = None,
                                      !.needs_search = FALSE]
            /\ pc' = after_web_search
            /\ UNCHANGED <<web_search_calls, search_failed, result, failed>>
       ELSE /\ web_search_calls' = web_search_calls + 1
            /\ \/ \E out \in SearchOutputs :
                    /\ state' = [state EXCEPT !.search_results = out,
                                              !.needs_search = FALSE]
                    /\ pc' = after_web_search
                    /\ UNCHANGED <<search_failed, result, failed>>
               \/ /\ search_failed' = TRUE
                  /\ state' = search_except(state).state
                  /\ IF search_except(state).raised
                     THEN Raise("web_search")
                     ELSE pc' = after_web_search /\ UNCHANGED <<result, failed>>
    /\ decision_reply' = None
    /\ UNCHANGED <<storeVars, req, max_tokens, rounds, llm_calls,
                   input0, llm_in, hist0, calls, n_calls>>

\* the message list _call_llm sends: the state's messages and, when there
\* are search results, a system message carrying them, appended last
SearchPrompt(search_results) ==
    Msg("system", "Here are recent web search results. " \o search_results)

llm_messages_results_only(st) ==
    IF impl = "chatgraph_service" /\ st.search_results # None
    THEN <<SearchPrompt(st.search_results)>>
    ELSE st.messages

llm_messages(st) ==
    IF impl = "chatgraph_service" /\ st.search_results # None
    THEN Append(st.messages, SearchPrompt(st.search_results))
    ELSE st.messages

\* result["messages"][-1]["content"]
response_of_first(messages) == messages[1].content
response_of(messages) == messages[Len(messages)].content

\* the message process_message appends once the workflow has returned
assistant_message_first(messages) == messages[1]
assistant_message_system(messages) ==
    Msg("system", messages[Len(messages)].content)
assistant_message(messages) ==
    IF impl = "chatgraph_service"
    THEN messages[Len(messages)]
    ELSE Msg("assistant", response_of(messages))

\* ChatProcessor._call_llm, the end of the workflow and the rest of
\* process_message
CallLLM ==
    /\ pc = "llm"
    /\ trace' = Append(trace, "llm")
    /\ llm_calls' = llm_calls + 1
    /\ llm_in' = llm_messages(state)
    /\ decision_reply' = None
    /\ \/ Raise("llm") /\ UNCHANGED <<state, chat_history, calls>>
       \/ \E content \in LLMReplies :
            LET messages == Append(state.messages, Msg("assistant", content))
                p == req.processor
            IN  /\ state' = [state EXCEPT !.messages = messages]
                /\ chat_history' = [chat_history EXCEPT
                      ![p] = Append(@, assistant_message(messages))]
                /\ result' = Returned(response_of(messages))
                /\ calls' = [calls EXCEPT
                      ![p] = Append(@, <<req.message, response_of(messages)>>)]
                /\ pc' = "idle"
                /\ UNCHANGED failed
    /\ UNCHANGED <<impl, conversations, created, returned, last_op, req,
                   max_tokens, rounds, web_search_calls, search_failed,
                   input0, hist0, n_calls>>

\* ------------------------------------- heuristic decision (websearch_service)
Uppers == "ABCDEFGHIJKLMNOPQRSTUVWXYZ"
Letters == "abcdefghijklmnopqrstuvwxyz"
Digits == "0123456789_"
Spaces == " \t\n\r\f"

char(text, i) == SubSeq(text, i, i)
in_chars(c, chars) == \E i \in 1..Len(chars) : char(chars, i) = c

\* str.lower()
lower_char(c) ==
    IF in_chars(c, Uppers)
    THEN char(Letters, CHOOSE i \in 1..Len(Uppers) : char(Uppers, i) = c)
    ELSE c

RECURSIVE lower(_)
lower(text) ==
    IF text = "" THEN ""
    ELSE lower_char(char(text, 1)) \o lower(SubSeq(text, 2, Len(text)))

\* keyword in text
contains(text, keyword) ==
    \E i \in 1..(Len(text) - Len(keyword) + 1) :
        SubSeq(text, i, i + Len(keyword) - 1) = keyword

search_keywords ==
    {"current", "latest", "recent", "new", "news", "today", "yesterday",
     "what happened", "what's happening", "stock price", "weather",
     "update", "breaking", "trending", "search", "find information",
     "look up", "real-time", "live", "now"}

\* the regular expressions: head and tail are words joined by \s+ between
\* two \b; a pattern with a tail is head, then .*, then tail
question_patterns ==
    {[head |-> <<"what", "is", "the", "current">>, tail |-> <<>>],
     [head |-> <<"what", "are", "the", "latest">>, tail |-> <<>>],
     [head |-> <<"how", "much", "is">>, tail |-> <<>>],
     [head |-> <<"when", "did">>, tail |-> <<"happen">>],
     [head |-> <<"who", "is", "the", "current">>, tail |-> <<>>]}

\* \w and \s
is_word(c) == in_chars(c, Letters) \/ in_chars(c, Uppers) \/ in_chars(c, Digits)
is_space(c) == in_chars(c, Spaces)

\* \b between the characters i-1 and i
boundary(text, i) ==
    LET before == i > 1 /\ is_word(char(text, i - 1))
        after == i <= Len(text) /\ is_word(char(text, i))
    IN  before # after

\* the first position at or after i that holds no whitespace
RECURSIVE skip_spaces(_, _)
skip_spaces(text, i) ==
    IF i <= Len(text) /\ is_space(char(text, i))
    THEN skip_spaces(text, i + 1)
    ELSE i

\* words joined by \s+ matched from position i: the position after the
\* match, 0 where there is no match
RECURSIVE words_end(_, _, _)
words_end(text, i, words) ==
    LET word == Head(words)
        j == i + Len(word)
    IN  IF j - 1 > Len(text) \/ SubSeq(text, i, j - 1) # word THEN 0
        ELSE IF Len(words) = 1 THEN j
        ELSE LET k == skip_spaces(text, j) IN
             IF k = j THEN 0 ELSE words_end(text, k, Tail(words))

\* \b words \b matched from position i: the position after the match or 0
phrase_end(text, i, words) ==
    LET e == words_end(text, i, words) IN
    IF e # 0 /\ boundary(text, i) /\ boundary(text, e) THEN e ELSE 0

\* re.search(pattern, text); "." matches any character but the newline
re_search(pattern, text) ==
    \E i \in 1..Len(text) :
        LET e == phrase_end(text, i, pattern.head) IN
        /\ e # 0
        /\ pattern.tail # <<>> =>
              \E k \in e..Len(text) :
                  /\ phrase_end(text, k, pattern.tail) # 0
                  /\ ~contains(SubSeq(text, e, k - 1), "\n")

\* WebSearchService.fallback_keyword_analysis
fallback_keyword_analysis_lowered(content) ==
    LET content_lower == lower(content)
        needs_search ==
            \/ \E keyword \in search_keywords :
                   contains(content_lower, keyword)
            \/ \E pattern \in question_patterns :
                   re_search(pattern, content_lower)
    IN  [needs_search |-> needs_search,
         search_query |-> IF needs_search THEN lower(content) ELSE None]

fallback_keyword_analysis(content) ==
    LET content_lower == lower(content)
        needs_search ==
            \/ \E keyword \in search_keywords :
                   contains(content_lower, keyword)
            \/ \E pattern \in question_patterns :
                   re_search(pattern, content_lower)
    IN  [needs_search |-> needs_search,
         search_query |-> IF needs_search THEN content ELSE None]

\* fallback_keyword_analysis called on the content of the last message
FallbackKeywordAnalysis ==
    /\ pc = "fallback_keyword_analysis"
    /\ LET content == state.messages[Len(state.messages)].content
           r == fallback_keyword_analysis(content)
       IN  state' = [state EXCEPT !.needs_search = r.needs_search,
                                  !.search_query = r.search_query]
    /\ pc' = "analyzed"
    /\ UNCHANGED <<storeVars, req, max_tokens, result, ghostVars>>

\* ------------------------------------------ search (websearch_service)
\* what a provider does when called: it raises, or it answers with n results
ProviderResult(i) ==
    [title |-> "Title", snippet |-> "Snippet", url |-> "u" \o ToString(i)]
ProviderResults(n) == [i \in 1..n |-> ProviderResult(i)]
SearchError(snippet) ==
    <<[title |-> "Search Error", snippet |-> snippet, url |-> ""]>>

\* data["web"]["results"][:max_results]
first_results(results, max_results) ==
    SubSeq(results, 1, IF max_results < Len(results) THEN max_results
                       ELSE Len(results))

\* the loop of _fallback_search: each result is appended twice
RECURSIVE append_results(_)
append_results(results) ==
    IF results = <<>> THEN <<>>
    ELSE <<Head(results), Head(results)>> \o append_results(Tail(results))

\* WebSearchService._fallback_search
fallback_search(query, max_results, brave) ==
    CASE brave.kind = "no key" ->
           SearchError("Web search is currently unavailable.")
      [] brave.kind = "request error" ->
           SearchError("Web search failed.")
      [] brave.kind = "error" ->
           SearchError("Search for '" \o query \o "' failed.")
      [] brave.kind = "no web" -> <<>>
      [] OTHER ->
           append_results(first_results(ProviderResults(brave.n), max_results))

\* query.strip() is empty
blank(query) == \A i \in 1..Len(query) : is_space(char(query, i))

\* WebSearchService.search up to the call of the fallback
Search ==
    /\ pc = "search"
    /\ IF blank(req.query)
       THEN /\ result' = Returned(<<>>)
            /\ pc' = "searched"
       ELSE IF req.mcp.kind = "results" /\ req.mcp.n > 0
       THEN /\ result' = Returned(ProviderResults(req.mcp.n))
            /\ pc' = "searched"
       ELSE /\ pc' = "fallback_search"
            /\ UNCHANGED result
    /\ UNCHANGED <<storeVars, req, state, max_tokens, ghostVars>>

\* return await self._fallback_search(query, max_results)
FallbackSearch ==
    /\ pc = "fallback_search"
    /\ result' = Returned(fallback_search(req.query, req.max_results,
                                          req.brave))
    /\ pc' = "searched"
    /\ UNCHANGED <<storeVars, req, state, max_tokens, ghostVars>>

\* ------------------------------------------------------- HTTP endpoints
\* POST /conversations/{id}/clear. Inside the handler the name
\* clear_conversation is the handler itself: its def rebinds the name
\* imported from the chat module. The call builds a coroutine object that
\* is never awaited, so no code of the chat module runs and nothing raises.
clear_endpoint(convs, hist, id) ==
    [conversations |-> convs, chat_history |-> hist, status |-> "success"]

ClearEndpoint(id) ==
    /\ store_free(pc # "idle")
    /\ LET r == clear_endpoint(conversations, chat_history, id) IN
        /\ conversations' = r.conversations
        /\ chat_history' = r.chat_history
        /\ last_op' = [name |-> IF r.status = "success" THEN "clear_endpoint"
                                ELSE "clear_endpoint 500",
                       id |-> id]
    /\ UNCHANGED <<impl, created, returned, callVars, ghostVars>>

\* GET /conversations. The handler reads the ChatManager that main.py
\* constructs for itself; process_message and clear_conversation work on
\* the chat module's own chat_manager, so no call ever registers a
\* processor in the store the listing reads.
main_conversations == [id \in Ids |-> 0]

\* one entry per key of the store read: the id and len(chat_history)
\* (messages carry no timestamp here, so created_at is left out)
list_conversations(convs, hist) ==
    {[id |-> id, message_count |-> Len(hist[convs[id]])] :
        id \in {i \in Ids : convs[i] # 0}}

\* POST /chat: the body the handler answers with, from the outcome of
\* process_message
Apology == "I'm sorry, I encountered an error processing your request."

chat_propagate(res, conversation_id) ==
    IF res.status = "ok"
    THEN [status_code |-> 200, response |-> res.response,
          conversation_id |-> conversation_id, error |-> None]
    ELSE [status_code |-> 500, response |-> None,
          conversation_id |-> None, error |-> None]

chat(res, conversation_id) ==
    IF res.status = "ok"
    THEN [status_code |-> 200, response |-> res.response,
          conversation_id |-> conversation_id, error |-> None]
    ELSE [status_code |-> 500, response |-> Apology,
          conversation_id |-> conversation_id, error |-> res.error]

\* ------------------------------------------------------- specifications
Next ==
    \/ \E id \in Ids : GetProcessor(id)
    \/ \E id \in Ids : ClearConversation(id)
    \/ \E id \in Ids : ClearEndpoint(id)
    \/ \E id \in Ids, message \in UserTexts : ProcessMessage(id, message)
    \/ SummarizeRound
    \/ TruncateStep
    \/ DecideSearch
    \/ WebSearch
    \/ CallLLM

Spec == Init /\ [][Next]_vars

\* ------------------------------------------------ the trimmers alone
\* summarize_messages and truncate_messages called on a list and a budget
TrimMessages ==
    {Msg("user", "Hi"), Msg("assistant", "Hello there"), Msg("user", LongText)}
Budgets == {0, 5, 11, 16, MAX_TOKENS - TokenReserve}
Lists(S, n) == UNION {[1..k -> S] : k \in 0..n}

InitTrim ==
    /\ pc \in {"summarize", "truncate"}
    /\ impl = IF pc = "summarize" THEN "chatgraph_service" ELSE "chat_graph"
    /\ \E messages \in Lists(TrimMessages, MaxLen) :
        /\ state = [NoState EXCEPT !.messages = messages]
        /\ input0 = messages
    /\ max_tokens \in Budgets
    /\ conversations = [id \in Ids |-> 0]
    /\ chat_history = [p \in Procs |-> <<>>]
    /\ created = 0
    /\ returned = 0
    /\ last_op = [name |-> "none", id |-> None]
    /\ req = NoReq
    /\ result = NoResult
    /\ trace = <<>>
    /\ rounds = 0
    /\ llm_calls = 0
    /\ web_search_calls = 0
    /\ search_failed = FALSE
    /\ llm_in = <<>>
    /\ hist0 = <<>>
    /\ calls = [p \in Procs |-> <<>>]
    /\ failed = [p \in Procs |-> FALSE]
    /\ n_calls = 0
    /\ decision_reply = None

NextTrim ==
    \/ SummarizeRound
    \/ TruncateStep

SpecTrim == InitTrim /\ [][NextTrim]_vars

\* ------------------------------------------------ the decisions alone
\* _decide_search_node and fallback_keyword_analysis called on a state
\* whose only message is a user message
Fragments ==
    {"How much", " is", "land", "When did", "\n", " happen"}
Examples ==
    {"What's the weather today?", "Latest news about AI",
     "Explain how photosynthesis works", "Write a poem about cats"}

RECURSIVE join(_)
join(fragments) ==
    IF fragments = <<>> THEN ""
    ELSE Head(fragments) \o join(Tail(fragments))

DecideTexts == Examples \cup {join(fs) : fs \in Lists(Fragments, MaxFrags)}

InitDecide ==
    /\ pc \in {"decide_search", "fallback_keyword_analysis"}
    /\ impl = "chatgraph_service"
    /\ \E text \in DecideTexts :
        /\ state = [NoState EXCEPT !.messages = <<Msg("user", text)>>]
        /\ input0 = <<Msg("user", text)>>
    /\ max_tokens = MAX_TOKENS - TokenReserve
    /\ conversations = [id \in Ids |-> 0]
    /\ chat_history = [p \in Procs |-> <<>>]
    /\ created = 0
    /\ returned = 0
    /\ last_op = [name |-> "none", id |-> None]
    /\ req = NoReq
    /\ result = NoResult
    /\ trace = <<>>
    /\ rounds = 0
    /\ llm_calls = 0
    /\ web_search_calls = 0
    /\ search_failed = FALSE
    /\ llm_in = <<>>
    /\ hist0 = <<>>
    /\ calls = [p \in Procs |-> <<>>]
    /\ failed = [p \in Procs |-> FALSE]
    /\ n_calls = 0
    /\ decision_reply = None

NextDecide ==
    \/ DecideSearch
    \/ FallbackKeywordAnalysis

SpecDecide == InitDecide /\ [][NextDecide]_vars

\* ------------------------------------------------ the search alone
\* WebSearchService.search called on a query and a max_results, with what
\* the MCP client and the Brave API do when called
Queries == {"", " ", "q"}
McpOutcomes ==
    {[kind |-> "raise", n |-> 0]}
    \cup {[kind |-> "results", n |-> n] : n \in 0..MaxProvider}
BraveOutcomes ==
    {[kind |-> k, n |-> 0] : k \in {"no key", "request error", "error", "no web"}}
    \cup {[kind |-> "results", n |-> n] : n \in 0..MaxProvider}

InitSearch ==
    /\ pc = "search"
    /\ impl = "chatgraph_service"
    /\ req \in [query : Queries, max_results : 0..MaxResults,
                 mcp : McpOutcomes, brave : BraveOutcomes]
    /\ state = NoState
    /\ input0 = <<>>
    /\ max_tokens = MAX_TOKENS - TokenReserve
    /\ conversations = [id \in Ids |-> 0]
    /\ chat_history = [p \in Procs |-> <<>>]
    /\ created = 0
    /\ returned = 0
    /\ last_op = [name |-> "none", id |-> None]
    /\ result = NoResult
    /\ trace = <<>>
    /\ rounds = 0
    /\ llm_calls = 0
    /\ web_search_calls = 0
    /\ search_failed = FALSE
    /\ llm_in = <<>>
    /\ hist0 = <<>>
    /\ calls = [p \in Procs |-> <<>>]
    /\ failed = [p \in Procs |-> FALSE]
    /\ n_calls = 0
    /\ decision_reply = None

NextSearch ==
    \/ Search
    \/ FallbackSearch

SpecSearch == InitSearch /\ [][NextSearch]_vars

\* ---------------------------------------------------------------- claims
D == "decide_search"
W == "web_search"
L == "llm"

Registered(p) == \E id \in Ids : conversations[id] = p

\* the history n returned calls leave: user, assistant, user, assistant, ...
RECURSIVE Turns(_)
Turns(cs) ==
    IF cs = <<>> THEN <<>>
    ELSE <<Msg("user", Head(cs)[1]), Msg("assistant", Head(cs)[2])>>
         \o Turns(Tail(cs))

Running(p) == pc # "idle" /\ req.processor = p

\* C1: on a registered processor none of whose calls raised, the stored
\* history is the n returned calls in call order, each the user message
\* followed by the response that call returned (2n messages), plus the user
\* message of the call still running, if any.
C1_HistoryIsTheReturnedCalls ==
    \A p \in Procs :
        (Registered(p) /\ ~failed[p]) =>
            /\ chat_history[p] =
                 Turns(calls[p]) \o
                 (IF Running(p) THEN <<Msg("user", req.message)>> ELSE <<>>)
            /\ ~Running(p) => Len(chat_history[p]) = 2 * Len(calls[p])

C1_Witness ==
    \E p \in Procs :
        /\ Registered(p) /\ ~failed[p] /\ pc = "idle"
        /\ Len(calls[p]) = 2
        /\ Len(chat_history[p]) = 4

\* C2: while a process_message call runs, the stored history is the history
\* it found plus exactly its user message (appended before decide_search
\* runs); once it has returned, the history is that plus exactly one
\* assistant message, whose content is the text returned.
C2_OneUserThenOneAssistant ==
    /\ (pc # "idle" /\ req.processor # 0) =>
          chat_history[req.processor] = Append(hist0, Msg("user", req.message))
    /\ (pc = "idle" /\ last_op.name = "process_message"
        /\ result.status = "ok") =>
          /\ chat_history[req.processor] =
                hist0 \o <<Msg("user", req.message),
                           Msg("assistant", result.response)>>
          /\ trace[Len(trace)] = L

C2_Witness ==
    /\ pc = "idle" /\ last_op.name = "process_message"
    /\ impl = "chatgraph_service"
    /\ result = Returned("Hi")
    /\ chat_history[req.processor] =
          <<Msg("user", "Hello"), Msg("assistant", "Hi")>>

\* C3: when decide_search leaves needs_search false, the next node is llm
\* and web_search is not called in that invocation.
C3_NoSearchWhenNotNeeded ==
    /\ (pc # "idle" /\ trace = <<D>> /\ ~state.needs_search) =>
          (pc = L /\ web_search_calls = 0)
    /\ W \notin {trace[i] : i \in 1..Len(trace)} => web_search_calls = 0
    /\ (pc = W) => state.needs_search

C3_Witness ==
    /\ pc = "idle" /\ result.status = "ok"
    /\ trace = <<D, L>>
    /\ web_search_calls = 0

\* C4: when web_search raises, the next node is still llm, with no search
\* results; the invocation ends in the llm node, and when the completion
\* returns text, process_message returns that text.
C4_FailedSearchStillCompletes ==
    search_failed =>
        /\ pc \in {L, "idle"}
        /\ state.search_results = None
        /\ pc = L => trace = <<D, W>>
        /\ pc = "idle" =>
            /\ trace = <<D, W, L>>
            /\ result.status = "error" => result.error = "llm"
            /\ result.status = "ok" =>
                 /\ result.response =
                       state.messages[Len(state.messages)].content
                 /\ state.messages[Len(state.messages)].role = "assistant"

C4_Witness ==
    /\ search_failed /\ pc = "idle"
    /\ result.status = "ok" /\ result.response # ""
    /\ web_search_calls = 1

\* C5: the nodes of an invocation are entered in the order decide_search,
\* then web_search exactly when decide_search left needs_search true, then
\* llm; no node is entered twice, and an invocation that returns has ended
\* in llm.
C5_NodeOrder ==
    impl = "chatgraph_service" =>
        /\ trace \in {<<>>, <<D>>, <<D, W>>, <<D, L>>, <<D, W, L>>}
        /\ pc \in {"summarize", D} => trace = <<>>
        /\ pc = W => (trace = <<D>> /\ state.needs_search)
        /\ pc = L => \/ trace = <<D>> /\ ~state.needs_search
                     \/ trace = <<D, W>>
        /\ (pc # "idle" /\ trace = <<D>>) =>
              pc = (IF state.needs_search THEN W ELSE L)
        /\ (pc = "idle" /\ result.status = "ok") =>
              trace \in {<<D, L>>, <<D, W, L>>}

C5_Witness ==
    /\ pc = "idle" /\ result.status = "ok"
    /\ trace = <<D, W, L>>
    /\ web_search_calls = 1 /\ ~search_failed
    /\ state.search_results # None

\* floor(log2(n)) for n >= 1
RECURSIVE Log2(_)
Log2(n) == IF n <= 1 THEN 0 ELSE 1 + Log2(n \div 2)

\* a finished call of summarize_messages alone
SummarizeEnded ==
    pc = "idle" /\ req.processor = 0 /\ impl = "chatgraph_service"

\* a finished call of truncate_messages alone
TruncateEnded ==
    pc = "idle" /\ req.processor = 0 /\ impl = "chat_graph"

\* C6: summarize_messages on N >= 1 messages ends by returning its list
\* after at most log2(N)+1 summarization rounds (the completion call of a
\* round not failing).
C6_ReturnsWithinLogRounds ==
    (SummarizeEnded /\ Len(input0) >= 1 /\ result.error # "llm") =>
        /\ result.status = "ok"
        /\ rounds <= Log2(Len(input0)) + 1

\* C7: summarize_messages on a single message whose own cost exceeds the
\* budget returns a best-effort list, after at most one round (the
\* completion call of the round not failing).
C7_BestEffortOnSingleOversized ==
    (SummarizeEnded /\ Len(input0) = 1 /\ cost(input0[1]) > max_tokens
     /\ result.error # "llm") =>
        /\ result.status = "ok"
        /\ state.messages # <<>>
        /\ rounds <= 1

\* C8: summarize_messages on a list whose total cost is at most the budget
\* returns that list unchanged, with no summary message, no summarization
\* round and no completion call.
C8_IdentityWithinBudget ==
    (SummarizeEnded /\ total_tokens(input0) <= max_tokens) =>
        /\ result.status = "ok"
        /\ state.messages = input0
        /\ rounds = 0
        /\ llm_calls = 0

C8_Witness ==
    /\ SummarizeEnded
    /\ Len(input0) = 2
    /\ total_tokens(input0) = max_tokens
    /\ result.status = "ok"

IsSuffix(out, in) ==
    /\ Len(out) <= Len(in)
    /\ out = SubSeq(in, Len(in) - Len(out) + 1, Len(in))

\* C9: truncate_messages returns a contiguous suffix of its input, in the
\* original order, whose total cost is at most the budget, except that when
\* the newest message alone exceeds the budget it returns exactly that one.
C9_TruncationIsSuffixWithinBudget ==
    TruncateEnded =>
        /\ result.status = "ok"
        /\ IsSuffix(state.messages, input0)
        /\ \/ total_tokens(state.messages) <= max_tokens
           \/ /\ input0 # <<>>
              /\ cost(input0[Len(input0)]) > max_tokens
              /\ state.messages = <<input0[Len(input0)]>>
        /\ input0 # <<>> => state.messages # <<>>

C9_Witness ==
    /\ TruncateEnded
    /\ Len(input0) = 3
    /\ Len(state.messages) = 2
    /\ total_tokens(state.messages) <= max_tokens

\* C10: a get_processor call for an id with no key constructs one processor
\* with empty history and registers it under the id; a call for an id that
\* has a key returns the registered processor, constructs nothing and
\* changes no history; a registered processor is only ever replaced after a
\* clear has removed it.
C10_GetProcessorStep(id) ==
    IF conversations[id] = 0
    THEN /\ created' = created + 1
         /\ conversations' = [conversations EXCEPT ![id] = created + 1]
         /\ chat_history'[created + 1] = <<>>
         /\ returned' = created + 1
    ELSE /\ created' = created
         /\ conversations' = conversations
         /\ chat_history' = chat_history
         /\ returned' = conversations[id]

C10_GetProcessorIdempotent ==
    [][/\ \A id \in Ids :
            (last_op' = [name |-> "get_processor", id |-> id]
             /\ <<conversations, chat_history, created, returned, last_op>>'
                  # <<conversations, chat_history, created, returned, last_op>>)
            => C10_GetProcessorStep(id)
       /\ \A id \in Ids :
            (conversations[id] # 0 /\ conversations'[id] # 0)
            => conversations'[id] = conversations[id]]_vars

C10_Witness ==
    /\ last_op = [name |-> "get_processor", id |-> "c1"]
    /\ created = 1
    /\ returned = 1
    /\ conversations["c1"] = 1
    /\ Len(chat_history[1]) = 2

\* C11: a clear_conversation call on a known id removes the key and empties
\* the history of the processor it removes; the get_processor or
\* process_message call that next registers the id constructs a processor
\* never used before, with empty history, so the call reads none of the
\* earlier messages; a processor that is not registered holds no message.
C11_ClearForgets ==
    [][\A id \in Ids :
        /\ (last_op'.name = "clear_conversation" /\ last_op'.id = id
            /\ conversations[id] # 0) =>
              /\ conversations'[id] = 0
              /\ chat_history'[conversations[id]] = <<>>
        /\ (conversations[id] = 0 /\ conversations'[id] # 0) =>
              /\ conversations'[id] = created + 1
              /\ created' = created + 1
              /\ last_op'.name \in {"get_processor", "process_message"}
              /\ last_op'.name = "get_processor" =>
                    chat_history'[conversations'[id]] = <<>>
              /\ last_op'.name = "process_message" =>
                    /\ hist0' = <<>>
                    /\ chat_history'[conversations'[id]] =
                          <<Msg("user", req'.message)>>
                    /\ state'.messages = <<Msg("user", req'.message)>>
        /\ \A p \in Procs : ~Registered(p)' => chat_history'[p] = <<>>
      ]_vars

C11_Witness ==
    /\ last_op = [name |-> "get_processor", id |-> "c1"]
    /\ req.conversation_id = "c1"
    /\ req.processor = 1
    /\ Len(calls[1]) = 1
    /\ conversations["c1"] = 2
    /\ chat_history[1] = <<>>
    /\ chat_history[2] = <<>>

\* C12: a clear_conversation call on an id that has no key does not raise
\* and leaves the store unchanged: same keys, same histories.
C12_ClearUnknownIsNoOp ==
    [][\A id \in Ids :
        (last_op'.id = id /\ conversations[id] = 0
         /\ last_op'.name \in {"clear_conversation",
                               "clear_conversation raised"}) =>
          /\ last_op'.name = "clear_conversation"
          /\ conversations' = conversations
          /\ chat_history' = chat_history
          /\ created' = created
      ]_vars

C12_Witness ==
    /\ last_op = [name |-> "clear_conversation", id |-> "c2"]
    /\ conversations["c2"] = 0
    /\ conversations["c1"] # 0
    /\ created = 1
    /\ Len(chat_history[conversations["c1"]]) = 2

\* C14: a call on one conversation id leaves every other id as it was: the
\* other id's key and the history of its processor do not change, and a
\* running process_message call reads and appends to the processor
\* registered under its own id only.
C14_OtherIdsUntouched ==
    [][/\ \A other \in Ids :
            other # last_op'.id =>
              /\ conversations'[other] = conversations[other]
              /\ conversations[other] # 0 =>
                    chat_history'[conversations[other]] =
                       chat_history[conversations[other]]
       /\ pc' # "idle" =>
            /\ last_op'.id = req'.conversation_id
            /\ conversations'[req'.conversation_id] = req'.processor
            /\ input0' = chat_history'[req'.processor]
       /\ \A id1, id2 \in Ids :
            (id1 # id2 /\ conversations'[id1] # 0) =>
               conversations'[id1] # conversations'[id2]
      ]_vars

C14_Witness ==
    /\ pc = "idle"
    /\ conversations["c1"] # 0 /\ conversations["c2"] # 0
    /\ Len(chat_history[conversations["c1"]]) = 2
    /\ Len(chat_history[conversations["c2"]]) = 2
    /\ last_op.name = "process_message"

C13_EndpointClearsStore ==
    \A id \in Ids :
        last_op = [name |-> "clear_endpoint", id |-> id] =>
            conversations[id] = 0

\* C17: when llm.invoke raises in the llm node, the chat endpoint answers
\* with a body: the fixed apology as response, the conversation id of the
\* request, and the text of the exception, which is not null.
C17_ApologyOnCompletionFailure ==
    (/\ pc = "idle"
     /\ last_op.name = "process_message"
     /\ result.status = "error"
     /\ trace # <<>>
     /\ trace[Len(trace)] = L) =>
        LET body == chat(result, req.conversation_id) IN
            /\ body.status_code = 500
            /\ body.response = Apology
            /\ body.conversation_id = req.conversation_id
            /\ body.conversation_id \in Ids
            /\ body.error # None
            /\ body.error = "llm"

C17_Witness ==
    /\ pc = "idle"
    /\ last_op = [name |-> "process_message", id |-> "c2"]
    /\ result = Raised("llm")
    /\ trace = <<D, W, L>>
    /\ chat(result, req.conversation_id).response = Apology
    /\ chat(result, req.conversation_id).conversation_id = "c2"

\* the user message the decision was taken on
last_user == input0[Len(input0)].content

\* C18: every process_message call that has ended has entered the llm node:
\* a failure of llm.invoke in the decision step or in the summarizer, or a
\* failure of the search, does not end the call before the final
\* completion.
C18_UpstreamFailureStillCompletes ==
    (pc = "idle" /\ last_op.name = "process_message") =>
        /\ trace # <<>>
        /\ trace[Len(trace)] = L

\* C19: when the reply of llm.invoke to the decision step is not a decision
\* object, the step does not raise and leaves in the state the needs_search
\* and the search_query that fallback_keyword_analysis computes from the
\* last user message.
C19_HeuristicOnUnparseableReply ==
    (/\ decision_reply # None
     /\ ~json_loads(decision_reply).ok
     /\ trace # <<>>
     /\ trace[Len(trace)] = D) =>
        /\ pc \in {W, L}
        /\ state.needs_search = fallback_keyword_analysis(last_user).needs_search
        /\ state.search_query = fallback_keyword_analysis(last_user).search_query

\* C20: fallback_keyword_analysis answers needs_search = TRUE exactly when
\* the lower-cased message contains one of the keywords or matches one of
\* the question patterns; search_query is then the message as it was given,
\* and None otherwise. "What's the weather today?" and "Latest news about
\* AI" are flagged with the query equal to the input, "Explain how
\* photosynthesis works" and "Write a poem about cats" are not.
C20_FlaggedExpected ==
    {"What's the weather today?", "Latest news about AI",
     "How much is", "How much\n is", "When did happen",
     "When did is happen", "\nWhen did happen"}

C20_UnflaggedExpected ==
    {"Explain how photosynthesis works", "Write a poem about cats", "",
     "How much island", "How muchHow much", "When did\n happen",
     "When didland happen", "land is happen"}

C20_FallbackKeywordAnalysis ==
    pc = "analyzed" =>
        LET lowered == lower(last_user)
            flagged ==
                \/ \E keyword \in search_keywords :
                      contains(lowered, keyword)
                \/ \E pattern \in question_patterns :
                      re_search(pattern, lowered)
        IN  /\ state.needs_search = flagged
            /\ state.needs_search => state.search_query = last_user
            /\ ~state.needs_search => state.search_query = None
            /\ last_user \in C20_FlaggedExpected => state.needs_search
            /\ last_user \in C20_UnflaggedExpected => ~state.needs_search

C20_Witness ==
    /\ pc = "analyzed"
    /\ last_user = "What's the weather today?"
    /\ state.needs_search
    /\ state.search_query = "What's the weather today?"

\* C21: after the web_search node has run, search_results is a text, not
\* None, also when the search call raised.
C21_SearchAlwaysYieldsText ==
    (trace # <<>> /\ trace[Len(trace)] = W) => state.search_results # None

\* C23: the listing has an entry for every id on which a process_message
\* call has returned and which has not been cleared since, and the entry's
\* message_count is the length of the history stored for the id.
C23_ListingShowsKnownIds ==
    \A id \in Ids :
        (conversations[id] # 0 /\ calls[conversations[id]] # <<>>) =>
            \E entry \in list_conversations(main_conversations, chat_history) :
                /\ entry.id = id
                /\ entry.message_count = Len(chat_history[conversations[id]])

\* C27: the list the llm node sends is the state's messages when there are
\* no search results; when there are, it is one system message carrying the
\* results followed by the state's messages.
C27_SearchPromptBeforeContext ==
    (trace # <<>> /\ trace[Len(trace)] = L) =>
        LET context == not_class_objects(input0) IN
        IF web_search_calls > 0 /\ ~search_failed
        THEN /\ Len(llm_in) = Len(context) + 1
             /\ llm_in[1].role = "system"
             /\ SubSeq(llm_in, 2, Len(llm_in)) = context
        ELSE llm_in = context

\* C22: the list WebSearchService.search returns holds at most max_results
\* results, whatever the MCP client and the Brave API answer.
C22_AtMostMaxResults ==
    pc = "searched" => Len(result.response) <= req.max_results

\* C24: every process_message call starts its workflow with needs_search
\* false and no search_query and no search_results, whatever the state the
\* previous call left; the llm node sends a search-results message only
\* when web_search returned results in the same call.
C24_SearchStateReset ==
    [][/\ (pc = "idle" /\ pc' # "idle") =>
            /\ ~state'.needs_search
            /\ state'.search_query = None
            /\ state'.search_results = None
       /\ \A i \in 1..Len(llm_in') :
            llm_in'[i].role = "system" =>
               /\ web_search_calls' = 1
               /\ ~search_failed'
               /\ llm_in'[i] = SearchPrompt(state'.search_results)
      ]_vars

C24_Witness ==
    /\ pc = "idle"
    /\ n_calls = 2
    /\ result.status = "ok"
    /\ Len(hist0) = 2
    /\ trace = <<D, L>>
    /\ state.search_results = None
    /\ llm_in = Append(hist0, Msg("user", req.message))

\* C25: the list the llm node sends is never empty and holds the user
\* message of the running call, after the messages the trimmer kept of the
\* stored history.
C25_CompletionGetsUserTurn ==
    (trace # <<>> /\ trace[Len(trace)] = L) =>
        /\ llm_in # <<>>
        /\ \E i \in 1..Len(llm_in) :
              /\ llm_in[i] = Msg("user", req.message)
              /\ \A j \in (i + 1)..Len(llm_in) : llm_in[j].role = "system"
              /\ IsSuffix(SubSeq(llm_in, 1, i), input0)

C25_Witness ==
    /\ pc = "idle"
    /\ result.status = "ok"
    /\ impl = "chat_graph"
    /\ Len(hist0) = 2
    /\ req.message = LongText
    /\ llm_in = <<Msg("user", LongText)>>

\* C26: whenever summarize_messages holds or returns a list, the list is
\* either a contiguous suffix of the input, in the input's order, or one
\* system message followed by such a suffix; no other system message is in
\* it.
C26_Shape(out, in) ==
    \/ IsSuffix(out, in)
    \/ /\ out # <<>>
       /\ out[1].role = "system"
       /\ IsSuffix(Tail(out), in)

C28_AppendOnly ==
    [][/\ \A id \in Ids :
            (conversations[id] # 0 /\ conversations'[id] = conversations[id]) =>
               LET old == chat_history[conversations[id]]
                   new == chat_history'[conversations[id]]
               IN  /\ Len(new) \in {Len(old), Len(old) + 1}
                   /\ SubSeq(new, 1, Len(old)) = old
       /\ \A p \in Procs : \A i \in 1..Len(chat_history'[p]) :
            chat_history'[p][i].role \in {"user", "assistant"}
      ]_vars

C28_Witness ==
    /\ pc = "idle"
    /\ result.status = "ok"
    /\ impl = "chat_graph"
    /\ llm_in = <<Msg("user", LongText)>>
    /\ Len(chat_history[req.processor]) = 4
    /\ SubSeq(chat_history[req.processor], 1, 2) = hist0

\* C29: a process_message call ends by returning or by raising to its
\* caller; when it raised, the stored history is the history it found plus
\* its user message, with nothing after it and nothing taken back, so the
\* next call that returns leaves user, user, assistant.
C29_NoRollbackOnFailure ==
    (pc = "idle" /\ last_op.name = "process_message") =>
        /\ result.status \in {"ok", "error"}
        /\ result.status = "error" =>
              /\ result.error # None
              /\ result.response = None
              /\ chat_history[req.processor] =
                    Append(hist0, Msg("user", req.message))
        /\ result.status = "ok" =>
              /\ Len(chat_history[req.processor]) = Len(hist0) + 2
              /\ chat_history[req.processor][Len(hist0) + 2].role = "assistant"
        /\ (failed[req.processor] /\ Len(calls[req.processor]) = 0) =>
              \A i \in 1..Len(chat_history[req.processor]) :
                  chat_history[req.processor][i].role = "user"

C29_Witness ==
    /\ pc = "idle"
    /\ last_op.name = "process_message"
    /\ result.status = "ok"
    /\ failed[req.processor]
    /\ Len(chat_history[req.processor]) = 3
    /\ chat_history[req.processor][1].role = "user"
    /\ chat_history[req.processor][2].role = "user"
    /\ chat_history[req.processor][3].role = "assistant"

\* C30: web_search is called only with a query that is neither None nor
\* empty; the web_search node entered with such a query makes no call and
\* leaves search_results None; every run of the node leaves needs_search
\* false and goes on to the llm node.
C30_SearchOnlyWithQuery ==
    [][pc = W =>
          /\ state.search_query \in {None, ""} =>
                /\ web_search_calls' = web_search_calls
                /\ state'.search_results = None
          /\ web_search_calls' # web_search_calls =>
                /\ state.search_query \notin {None, ""}
                /\ web_search_calls' = web_search_calls + 1
          /\ ~state'.needs_search
          /\ pc' = L
          /\ state'.messages = state.messages
      ]_vars

C30_Witness ==
    /\ pc = L
    /\ trace = <<D, W>>
    /\ state.search_query = ""
    /\ web_search_calls = 0
    /\ state.search_results = None
    /\ ~state.needs_search

====
